---- MODULE Spec2Model ----
(***************************************************************************)
(* The memcached client of pkg/chunk/cache/memcached_client.go: the        *)
(* constructor's first discovery cycle, the background update loop, Stop,  *)
(* and callers that pick a server while the loop swaps the server list.    *)
(*                                                                         *)
(* Strings that the program splits, formats or sorts are sequences of      *)
(* character codes (44 is ',', 43 is '+', 58 is ':', 97 is 'a').           *)
(***************************************************************************)
EXTENDS Integers, Sequences, FiniteSets, TLC

VARIABLES
    cfg,          \* the MemcachedClientConfig handed to NewMemcachedClient
    addresses,    \* c.addresses
    resolved,     \* the dns.Provider's records: configured address -> list
    serverList,   \* the selector's active list (c.serverList)
    numServers,   \* the gauge c.numServers
    quit,         \* TRUE once c.quit is closed
    wait,         \* the counter of c.wait
    ticker,       \* "none", "running" or "stopped"
    tick,         \* TRUE while a tick is buffered in ticker.C
    pc,           \* position of the constructor ("ctor") and the loop ("loop")
    servers,      \* updateMemcacheServers' local `servers`, per executor
    err,          \* the err of NewMemcachedClient: the first cycle's result
    stopPc,       \* position of each caller of Stop
    rdPc,         \* position of the caller that runs a get/set
    rdKey,        \* the key of that get/set
    rdN,          \* len(addrs) as read by PickServer
    rdResult,     \* what PickServer returned
    opResult,     \* what the last get/set returned, "none" while one is running
    hist,         \* history of the cycles, read by the properties only
    hkey,         \* jump hash study: the 64-bit key hash
    hn,           \* jump hash study: the number of servers
    hbucket,      \* jump hash study: the bucket for hn servers
    hprev         \* jump hash study: the bucket for hn - 1 servers

vars == << cfg, addresses, resolved, serverList, numServers, quit, wait,
           ticker, tick, pc, servers, err, stopPc, rdPc, rdKey, rdN,
           rdResult, opResult, hist, hkey, hn, hbucket, hprev >>

clientVars == << cfg, addresses, resolved, serverList, numServers, quit, wait,
                 ticker, tick, pc, servers, err, stopPc, rdPc, rdKey, rdN,
                 rdResult, opResult, hist >>

hashVars == << hkey, hn, hbucket, hprev >>

-----------------------------------------------------------------------------
(* Bounds *)

\* the largest number of records one lookup returns
MaxResolved == 2

\* the largest server count of the jump hash study
MaxServers == 8

-----------------------------------------------------------------------------
(* Strings *)

Range(s) == { s[i] : i \in 1..Len(s) }

\* the injective sequences that enumerate the set S, in every order
Orders(S) ==
    { f \in [1..Cardinality(S) -> S] : \A i, j \in 1..Cardinality(S) : f[i] = f[j] => i = j }

RECURSIVE Concat(_)
Concat(ss) == IF ss = << >> THEN << >> ELSE Head(ss) \o Concat(Tail(ss))

\* a < b in the byte-wise order of Go strings
RECURSIVE StrLess(_, _)
StrLess(a, b) ==
    IF b = << >> THEN FALSE
    ELSE IF a = << >> THEN TRUE
    ELSE IF Head(a) < Head(b) THEN TRUE
    ELSE IF Head(a) > Head(b) THEN FALSE
    ELSE StrLess(Tail(a), Tail(b))

RECURSIVE Insert(_, _)
Insert(x, l) ==
    IF l = << >> THEN << x >>
    ELSE IF StrLess(x, Head(l)) THEN << x >> \o l
    ELSE << Head(l) >> \o Insert(x, Tail(l))

RECURSIVE InsertionSort(_)
InsertionSort(l) == IF l = << >> THEN << >> ELSE Insert(Head(l), InsertionSort(Tail(l)))

SortStringsUnsorted(l) == l

\* sort.Strings(servers)
SortStrings(l) == InsertionSort(l)

IsSorted(l) == \A i \in 1..(Len(l) - 1) : ~StrLess(l[i + 1], l[i])

\* the index of the first ',' of s, 0 when there is none
FirstComma(s) ==
    IF \E i \in 1..Len(s) : s[i] = 44
    THEN CHOOSE i \in 1..Len(s) : s[i] = 44 /\ \A j \in 1..(i - 1) : s[j] # 44
    ELSE 0

RECURSIVE SplitComma(_)

\* strings.Split(s, ","): the empty string splits into one empty string
SplitComma(s) ==
    IF FirstComma(s) = 0 THEN << s >>
    ELSE << SubSeq(s, 1, FirstComma(s) - 1) >> \o SplitComma(SubSeq(s, FirstComma(s) + 1, Len(s)))

RECURSIVE Digits(_)
Digits(n) == IF n < 10 THEN << 48 + n >> ELSE Digits(n \div 10) \o << 48 + (n % 10) >>

\* fmt.Sprintf("%s:%d", srv.Target, srv.Port)
SrvAddress(srv) == srv.Target \o << 58 >> \o Digits(srv.Port)

-----------------------------------------------------------------------------
(* 64-bit arithmetic: a uint64 is its eight bytes, least significant first, *)
(* as a function 0..7 -> 0..255                                             *)

RECURSIVE ColumnSum(_, _, _, _)
\* the sum of a[i] * b[k - i] for i in 0..i
ColumnSum(a, b, k, i) ==
    IF i < 0 THEN 0 ELSE a[i] * b[k - i] + ColumnSum(a, b, k, i - 1)

RECURSIVE Carry(_, _, _)
\* the bytes k..7 of the number whose byte columns are cols, with carry c
Carry(cols, k, c) ==
    IF k > 7 THEN << >>
    ELSE << (cols[k] + c) % 256 >> \o Carry(cols, k + 1, (cols[k] + c) \div 256)

Bytes(s) == [i \in 0..7 |-> s[i + 1]]

\* a * b modulo 2^64
Mul64(a, b) == Bytes(Carry([k \in 0..7 |-> ColumnSum(a, b, k, k)], 0, 0))

\* a + 1 modulo 2^64
Inc64(a) == Bytes(Carry(a, 0, 1))

\* key >> 33, a 31-bit number
Shr33(a) == (a[4] \div 2) + a[5] * 128 + a[6] * 32768 + a[7] * 8388608

\* 2862933555777941757, the multiplier of the jump hash's generator
JumpMultiplier == Bytes(<< 253, 176, 176, 135, 230, 46, 187, 39 >>)

\* t * (s + 1) <= m * 2^31, computed in 16-bit halves
FitsBelow(t, s, m) ==
    LET low == t * ((s % 65536) + 1)
        high == t * (s \div 65536) + (low \div 65536)
    IN  high < m * 32768 \/ (high = m * 32768 /\ low % 65536 = 0)

\* min(cap, floor(m * 2^31 / (s + 1))), for 1 <= m <= cap and s < 2^31
JumpTo(m, s, cap) ==
    LET T == { t \in m..cap : FitsBelow(t, s, m) }
    IN  CHOOSE t \in T : \A u \in T : u <= t

RECURSIVE JumpLoop(_, _, _, _)
JumpLoop(key, b, j, n) ==
    IF j < n
    THEN LET k2 == Inc64(Mul64(key, JumpMultiplier))
         IN  JumpLoop(k2, j, JumpTo(j + 1, Shr33(k2), IF n > j + 1 THEN n ELSE j + 1), n)
    ELSE b

JumpHashModulo(key, n) == key[0] % n

\* the jump consistent hash: the bucket of key among n buckets
JumpHash(key, n) == JumpLoop(key, -1, 0, n)

-----------------------------------------------------------------------------
(* The inputs: configurations, lookup outcomes, keys *)

\* "a:1", "b:1", ...: the i-th server address of the environment
Address(i) == << 96 + i, 58, 49 >>

Universe == { Address(i) : i \in 1..MaxResolved }

\* every list of distinct addresses a lookup may return, in every order
RecordLists == UNION { Orders(S) : S \in SUBSET Universe }

Config(host, addrs, consistent) ==
    [ Host |-> host, Service |-> "memcached", Addresses |-> addrs,
      ConsistentHash |-> consistent ]

StaticAddresses == Address(2) \o << 44 >> \o Address(1)

DnsAddress == << 100, 110, 115, 43, 109 >>

\* cfg.Addresses is "" (unset), "b:1,a:1" (two static addresses) or "dns+m" (one
\* address that asks the provider for a lookup); cfg.Host is unset or names the
\* service's SRV records. Host with no Addresses and Addresses with no Host are
\* the two discovery sources; neither and both are the other two configurations
Configs ==
    { Config("memcached.default.svc", << >>, FALSE),
      Config("", StaticAddresses, FALSE),
      Config("", DnsAddress, FALSE),
      Config("", DnsAddress, TRUE),
      Config("", << >>, TRUE),
      Config("memcached.default.svc", StaticAddresses, TRUE) }

\* a lookup of the provider: it fails, or it returns a list of records
LookupOutcomes ==
    { [ok |-> FALSE, recs |-> << >>] } \cup { [ok |-> TRUE, recs |-> l] : l \in RecordLists }

\* net.LookupSRV: it fails, or it returns SRV records (target and port)
SrvOutcomes ==
    { [ok |-> FALSE, addrs |-> << >>] } \cup
    { [ok |-> TRUE, addrs |-> [i \in 1..Len(l) |-> [Target |-> << l[i][1] >>, Port |-> 11211]]] :
        l \in RecordLists }

\* the keys of the callers' get/set: the key's CRC-32 and its 64-bit hash
Keys ==
    { [crc |-> 7, xx |-> Bytes(<< 1, 0, 0, 0, 0, 0, 0, 0 >>)],
      [crc |-> 8, xx |-> Bytes(<< 42, 0, 0, 0, 0, 0, 0, 0 >>)] }

\* no get/set in progress
NoKey == [crc |-> 0, xx |-> Bytes(<< 0, 0, 0, 0, 0, 0, 0, 0 >>)]

\* the callers of Stop; of two calls, the one that closes quit first is caller 1
Stoppers == { 1, 2 }

Executors == { "ctor", "loop" }

-----------------------------------------------------------------------------
(* The collaborators: the dns.Provider and the two selectors *)

\* strings.SplitN(addr, "+", 2) has two parts: the address asks for a lookup
IsLookup(a) == \E i \in 1..Len(a) : a[i] = 43

LookupAddrs == { a \in Range(addresses) : IsLookup(a) }

OldRecords(a) == IF a \in DOMAIN resolved THEN resolved[a] ELSE << >>

\* provider.Resolve(ctx, addrs): a plain address is its own record, a lookup
\* that fails keeps the records it had, and no error is reported
ProviderResolve(out) ==
    [ a \in Range(addresses) |->
        IF ~IsLookup(a) THEN << a >>
        ELSE IF out[a].ok THEN out[a].recs
        ELSE OldRecords(a) ]

\* provider.Addresses(): the records of every address, in the order `order`
\* of the provider's map
ProviderAddresses(recs, order) == Concat([ i \in 1..Len(order) |-> recs[order[i]] ])

\* the jump hash of the callers' keys for the server counts a lookup can
\* produce, computed once
KeyBuckets == [ k \in Keys |-> [ n \in 1..MaxResolved |-> JumpHash(k.xx, n) ] ]

\* the jump hash of the key's 64-bit hash among n servers
KeyBucket(key, n) ==
    IF key \in DOMAIN KeyBuckets /\ n \in DOMAIN KeyBuckets[key]
    THEN KeyBuckets[key][n]
    ELSE JumpHash(key.xx, n)

\* the index PickServer computes for a list of n >= 1 servers
PickIndex(key, n) ==
    IF cfg.ConsistentHash THEN KeyBucket(key, n)
    ELSE IF n = 1 THEN 0
    ELSE key.crc % n

NoResult == [err |-> "none", addr |-> << >>]

ErrNoServers == [err |-> "ErrNoServers", addr |-> << >>]

\* addrs[idx] of the list l; Go panics when idx is out of range
PickAt(l, idx) ==
    IF idx < Len(l) THEN [err |-> "nil", addr |-> l[idx + 1]]
    ELSE [err |-> "panic: index out of range", addr |-> << >>]

\* PickServer against the list l, read in full
PickFrom(l, key) ==
    IF Len(l) = 0 THEN ErrNoServers ELSE PickAt(l, PickIndex(key, Len(l)))

ClientDefaultServerList == << Address(1) >>

\* the list the protocol client picks from: the client is built from the
\* selector that the memcachedClient keeps as serverList
ClientSelectorList == serverList

WriterIgnoresLock == TRUE

\* SetServers takes the selector's write lock: no PickServer holds it for reading
WriterMayLock == rdPc # "rlocked"

WriterLocksForCycle == pc["loop"] \in { "resolve", "sort", "set" }

\* the writer takes and releases the selector's lock inside SetServers, the
\* last call of the cycle: it holds no lock while the cycle resolves and sorts
WriterHoldsLock == FALSE

Panicked == \E s \in Stoppers : stopPc[s] = "panicked"

-----------------------------------------------------------------------------
(* Initial state: NewMemcachedClient is about to be called with cfg *)

InitHist ==
    [ failed |-> FALSE, raw |-> << >>, source |-> "none",
      firstFailed |-> FALSE, tickServed |-> FALSE, lists |-> { }, ret |-> "none",
      tickFailed |-> FALSE ]

InitClient ==
    /\ cfg \in Configs
    /\ addresses = << >>
    /\ resolved = << >>
    /\ serverList = << >>
    /\ numServers = 0
    /\ quit = FALSE
    /\ wait = 0
    /\ ticker = "none"
    /\ tick = FALSE
    /\ pc = [ctor |-> "new", loop |-> "none"]
    /\ servers = [w \in Executors |-> << >>]
    /\ err = "nil"
    /\ stopPc = [s \in Stoppers |-> "idle"]
    /\ rdPc = "idle"
    /\ rdKey = NoKey
    /\ rdN = 0
    /\ rdResult = NoResult
    /\ opResult = "none"
    /\ hist = InitHist

-----------------------------------------------------------------------------
(* updateMemcacheServers, run by the constructor and by the loop *)

AfterUpdateCallsAgain(w) == IF w = "ctor" THEN "start" ELSE "set"

\* where the executor continues when updateMemcacheServers returns
AfterUpdate(w) == IF w = "ctor" THEN "start" ELSE "select"

\* the caller's err after updateMemcacheServers returned e: the constructor
\* keeps it (lines 107-110); the loop logs it and drops it (lines 129-132)
Returned(w, e) == IF w = "ctor" THEN e ELSE err

\* hist.failed: a lookup of the last resolution failed; hist.ret is what the
\* last updateMemcacheServers returned, "none" while one runs; hist.tickFailed:
\* a cycle of the loop had a failed lookup or returned an error
StartCycle(h) ==
    [h EXCEPT !.failed = FALSE, !.raw = << >>, !.source = "none", !.ret = "none"]

\* lines 143-156: the provider's records when c.addresses is not empty, the SRV
\* lookup of service and hostname otherwise
UpdResolve(w) ==
    /\ ~Panicked
    /\ pc[w] = "resolve"
    /\ IF Len(addresses) > 0
       THEN \E out \in [LookupAddrs -> LookupOutcomes], order \in Orders(Range(addresses)) :
              LET recs == ProviderResolve(out)
                  list == ProviderAddresses(recs, order)
                  bad == \E a \in LookupAddrs : ~out[a].ok
              IN  /\ resolved' = recs
                  /\ servers' = [servers EXCEPT ![w] = list]
                  /\ pc' = [pc EXCEPT ![w] = "sort"]
                  /\ hist' = [hist EXCEPT !.failed = bad, !.raw = list, !.source = "provider",
                                          !.firstFailed = IF w = "ctor" THEN bad ELSE @]
                  /\ UNCHANGED err
       ELSE \E out \in SrvOutcomes :
              IF out.ok
              THEN LET list == [i \in 1..Len(out.addrs) |-> SrvAddress(out.addrs[i])]
                   IN  /\ servers' = [servers EXCEPT ![w] = list]
                       /\ pc' = [pc EXCEPT ![w] = "sort"]
                       /\ hist' = [hist EXCEPT !.raw = list, !.source = "srv"]
                       /\ UNCHANGED << resolved, err >>
              ELSE /\ servers' = [servers EXCEPT ![w] = << >>]
                   /\ err' = Returned(w, "lookup")
                   /\ pc' = [pc EXCEPT ![w] = AfterUpdate(w)]
                   /\ hist' = [hist EXCEPT !.source = "srv", !.ret = "lookup",
                                           !.tickFailed = @ \/ w = "loop",
                                           !.firstFailed = IF w = "ctor" THEN TRUE ELSE @]
                   /\ UNCHANGED resolved
    /\ UNCHANGED << cfg, addresses, serverList, numServers, quit, wait, ticker, tick,
                    stopPc, rdPc, rdKey, rdN, rdResult, opResult, hashVars >>

UpdSortWithoutGauge(w) ==
    /\ ~Panicked
    /\ pc[w] = "sort"
    /\ servers' = [servers EXCEPT ![w] = SortStrings(servers[w])]
    /\ pc' = [pc EXCEPT ![w] = "set"]
    /\ UNCHANGED << cfg, addresses, resolved, serverList, numServers, quit, wait, ticker,
                    tick, err, stopPc, rdPc, rdKey, rdN, rdResult, opResult, hist, hashVars >>

\* lines 161-162: sort.Strings(servers); c.numServers.Set(len(servers))
UpdSort(w) ==
    /\ ~Panicked
    /\ pc[w] = "sort"
    /\ servers' = [servers EXCEPT ![w] = SortStrings(servers[w])]
    /\ numServers' = Len(servers[w])
    /\ pc' = [pc EXCEPT ![w] = "set"]
    /\ UNCHANGED << cfg, addresses, resolved, serverList, quit, wait, ticker, tick, err,
                    stopPc, rdPc, rdKey, rdN, rdResult, opResult, hist, hashVars >>

UpdSetServersMerging(w) ==
    /\ ~Panicked
    /\ pc[w] = "set"
    /\ \/ /\ WriterMayLock
          /\ serverList' = SortStrings(servers[w] \o
                               SelectSeq(serverList, LAMBDA a : a \notin Range(servers[w])))
          /\ err' = Returned(w, "nil")
          /\ hist' = [hist EXCEPT !.raw = << >>, !.ret = "nil",
                                  !.tickFailed = @ \/ (w = "loop" /\ hist.failed),
                                  !.lists = IF rdPc = "rlocked" THEN @ \cup { servers[w] } ELSE @]
       \/ /\ Len(servers[w]) > 0
          /\ err' = Returned(w, "SetServers")
          /\ hist' = [hist EXCEPT !.raw = << >>, !.ret = "SetServers",
                                  !.tickFailed = @ \/ w = "loop"]
          /\ UNCHANGED serverList
    /\ pc' = [pc EXCEPT ![w] = AfterUpdate(w)]
    /\ servers' = [servers EXCEPT ![w] = << >>]
    /\ UNCHANGED << cfg, addresses, resolved, numServers, quit, wait, ticker, tick,
                    stopPc, rdPc, rdKey, rdN, rdResult, opResult, hashVars >>

UpdSetServersExitOnError(w) ==
    /\ ~Panicked
    /\ pc[w] = "set"
    /\ \/ /\ WriterMayLock
          /\ serverList' = servers[w]
          /\ err' = Returned(w, "nil")
          /\ hist' = [hist EXCEPT !.raw = << >>, !.ret = "nil",
                                  !.tickFailed = @ \/ (w = "loop" /\ hist.failed),
                                  !.lists = IF rdPc = "rlocked" THEN @ \cup { servers[w] } ELSE @]
          /\ pc' = [pc EXCEPT ![w] = AfterUpdate(w)]
       \/ /\ Len(servers[w]) > 0
          /\ err' = Returned(w, "SetServers")
          /\ hist' = [hist EXCEPT !.raw = << >>, !.ret = "SetServers",
                                  !.tickFailed = @ \/ w = "loop"]
          /\ pc' = [pc EXCEPT ![w] = IF w = "loop" THEN "return" ELSE AfterUpdate(w)]
          /\ UNCHANGED serverList
    /\ servers' = [servers EXCEPT ![w] = << >>]
    /\ UNCHANGED << cfg, addresses, resolved, numServers, quit, wait, ticker, tick,
                    stopPc, rdPc, rdKey, rdN, rdResult, opResult, hashVars >>

UpdSetServersRejectsEmpty(w) ==
    /\ ~Panicked
    /\ pc[w] = "set"
    /\ \/ /\ WriterMayLock
          /\ Len(servers[w]) > 0
          /\ serverList' = servers[w]
          /\ err' = Returned(w, "nil")
          /\ hist' = [hist EXCEPT !.raw = << >>, !.ret = "nil",
                                  !.tickFailed = @ \/ (w = "loop" /\ hist.failed),
                                  !.lists = IF rdPc = "rlocked" THEN @ \cup { servers[w] } ELSE @]
       \/ /\ err' = Returned(w, "SetServers")
          /\ hist' = [hist EXCEPT !.raw = << >>, !.ret = "SetServers",
                                  !.tickFailed = @ \/ w = "loop"]
          /\ UNCHANGED serverList
    /\ pc' = [pc EXCEPT ![w] = AfterUpdate(w)]
    /\ servers' = [servers EXCEPT ![w] = << >>]
    /\ UNCHANGED << cfg, addresses, resolved, numServers, quit, wait, ticker, tick,
                    stopPc, rdPc, rdKey, rdN, rdResult, opResult, hashVars >>

\* line 163: return c.serverList.SetServers(servers...). The selector either
\* rejects the list (an address of it does not resolve) and keeps its own, or
\* replaces its list under its write lock
UpdSetServers(w) ==
    /\ ~Panicked
    /\ pc[w] = "set"
    /\ \/ /\ WriterMayLock
          /\ serverList' = servers[w]
          /\ err' = Returned(w, "nil")
          /\ hist' = [hist EXCEPT !.raw = << >>, !.ret = "nil",
                                  !.tickFailed = @ \/ (w = "loop" /\ hist.failed),
                                  !.lists = IF rdPc = "rlocked" THEN @ \cup { servers[w] } ELSE @]
       \/ /\ Len(servers[w]) > 0
          /\ err' = Returned(w, "SetServers")
          /\ hist' = [hist EXCEPT !.raw = << >>, !.ret = "SetServers",
                                  !.tickFailed = @ \/ w = "loop"]
          /\ UNCHANGED serverList
    /\ pc' = [pc EXCEPT ![w] = AfterUpdate(w)]
    /\ servers' = [servers EXCEPT ![w] = << >>]
    /\ UNCHANGED << cfg, addresses, resolved, numServers, quit, wait, ticker, tick,
                    stopPc, rdPc, rdKey, rdN, rdResult, opResult, hashVars >>

-----------------------------------------------------------------------------
(* NewMemcachedClient *)

\* neither or both of the two discovery sources are configured
InvalidSource(c) == (c.Host = "") <=> (c.Addresses = << >>)

CtorNewValidating ==
    /\ pc["ctor"] = "new"
    /\ addresses' = SplitComma(cfg.Addresses)
    /\ IF InvalidSource(cfg)
       THEN /\ pc' = [pc EXCEPT !["ctor"] = "returned"]
            /\ err' = "ConfigurationError"
       ELSE /\ pc' = [pc EXCEPT !["ctor"] = "resolve"]
            /\ UNCHANGED err
    /\ hist' = [hist EXCEPT !.failed = FALSE, !.raw = << >>, !.source = "none"]
    /\ UNCHANGED << cfg, resolved, serverList, numServers, quit, wait, ticker, tick,
                    servers, stopPc, rdPc, rdKey, rdN, rdResult, opResult, hkey, hn,
                    hbucket, hprev >>

CtorNewLoopFirst ==
    /\ pc["ctor"] = "new"
    /\ addresses' = SplitComma(cfg.Addresses)
    /\ wait' = wait + 1
    /\ pc' = [ctor |-> "resolve", loop |-> "start"]
    /\ hist' = [hist EXCEPT !.failed = FALSE, !.raw = << >>, !.source = "none"]
    /\ UNCHANGED << cfg, resolved, serverList, numServers, quit, ticker, tick,
                    servers, err, stopPc, rdPc, rdKey, rdN, rdResult, opResult, hkey, hn,
                    hbucket, hprev >>

\* lines 84-107: the selector, the protocol client, the memcachedClient with
\* addresses = strings.Split(cfg.Addresses, ","), then the first cycle is entered
CtorNew ==
    /\ pc["ctor"] = "new"
    /\ addresses' = SplitComma(cfg.Addresses)
    /\ pc' = [pc EXCEPT !["ctor"] = "resolve"]
    /\ hist' = StartCycle(hist)
    /\ UNCHANGED << cfg, resolved, serverList, numServers, quit, wait, ticker, tick,
                    servers, err, stopPc, rdPc, rdKey, rdN, rdResult, opResult, hashVars >>

CtorStartLoopUnlessErr ==
    /\ pc["ctor"] = "start"
    /\ IF err = "nil"
       THEN /\ wait' = wait + 1
            /\ pc' = [ctor |-> "return", loop |-> "start"]
       ELSE /\ pc' = [pc EXCEPT !["ctor"] = "return"]
            /\ UNCHANGED wait
    /\ UNCHANGED << cfg, addresses, resolved, serverList, numServers, quit, ticker, tick,
                    servers, err, stopPc, rdPc, rdKey, rdN, rdResult, opResult, hist,
                    hkey, hn, hbucket, hprev >>

\* lines 108-113: the error of the first cycle is logged, never returned;
\* wait.Add(1); go updateLoop
CtorStartLoop ==
    /\ pc["ctor"] = "start"
    /\ wait' = wait + 1
    /\ pc' = [ctor |-> "return", loop |-> "start"]
    /\ UNCHANGED << cfg, addresses, resolved, serverList, numServers, quit, ticker, tick,
                    servers, err, stopPc, rdPc, rdKey, rdN, rdResult, opResult, hist,
                    hashVars >>

\* line 114
CtorReturn ==
    /\ pc["ctor"] = "return"
    /\ pc' = [pc EXCEPT !["ctor"] = "returned"]
    /\ UNCHANGED << cfg, addresses, resolved, serverList, numServers, quit, wait, ticker,
                    tick, servers, err, stopPc, rdPc, rdKey, rdN, rdResult, opResult, hist,
                    hashVars >>

-----------------------------------------------------------------------------
(* updateLoop *)

\* line 125: ticker := time.NewTicker(updateInterval), wait.Done deferred
LoopNewTicker ==
    /\ ~Panicked
    /\ pc["loop"] = "start"
    /\ ticker' = "running"
    /\ pc' = [pc EXCEPT !["loop"] = "select"]
    /\ UNCHANGED << cfg, addresses, resolved, serverList, numServers, quit, wait, tick,
                    servers, err, stopPc, rdPc, rdKey, rdN, rdResult, opResult, hist,
                    hashVars >>

\* the running ticker puts a tick in its channel, which buffers one
Tick ==
    /\ ~Panicked
    /\ ticker = "running"
    /\ ~tick
    /\ tick' = TRUE
    /\ UNCHANGED << cfg, addresses, resolved, serverList, numServers, quit, wait, ticker,
                    pc, servers, err, stopPc, rdPc, rdKey, rdN, rdResult, opResult, hist,
                    hashVars >>

\* lines 127-129: the select receives from ticker.C and the cycle is entered.
\* When quit is closed too, the select takes either ready case
LoopTick ==
    /\ ~Panicked
    /\ pc["loop"] = "select"
    /\ tick
    /\ tick' = FALSE
    /\ pc' = [pc EXCEPT !["loop"] = "resolve"]
    /\ hist' = [StartCycle(hist) EXCEPT !.tickServed = TRUE]
    /\ UNCHANGED << cfg, addresses, resolved, serverList, numServers, quit, wait, ticker,
                    servers, err, stopPc, rdPc, rdKey, rdN, rdResult, opResult, hashVars >>

\* lines 133-135: the select receives from the closed quit; ticker.Stop(); return
LoopQuit ==
    /\ ~Panicked
    /\ pc["loop"] = "select"
    /\ quit
    /\ ticker' = "stopped"
    /\ pc' = [pc EXCEPT !["loop"] = "return"]
    /\ UNCHANGED << cfg, addresses, resolved, serverList, numServers, quit, wait, tick,
                    servers, err, stopPc, rdPc, rdKey, rdN, rdResult, opResult, hist,
                    hashVars >>

LoopDoneWithoutWaitDone ==
    /\ ~Panicked
    /\ pc["loop"] = "return"
    /\ pc' = [pc EXCEPT !["loop"] = "exited"]
    /\ UNCHANGED << cfg, addresses, resolved, serverList, numServers, quit, wait, ticker,
                    tick, servers, err, stopPc, rdPc, rdKey, rdN, rdResult, opResult, hist,
                    hashVars >>

\* line 124: the deferred c.wait.Done() runs as the loop returns
LoopDone ==
    /\ ~Panicked
    /\ pc["loop"] = "return"
    /\ wait' = wait - 1
    /\ pc' = [pc EXCEPT !["loop"] = "exited"]
    /\ UNCHANGED << cfg, addresses, resolved, serverList, numServers, quit, ticker, tick,
                    servers, err, stopPc, rdPc, rdKey, rdN, rdResult, opResult, hist,
                    hashVars >>

-----------------------------------------------------------------------------
(* Stop, called by the owners of a constructed client *)

StopCloseOnce(s) ==
    /\ ~Panicked
    /\ pc["ctor"] = "returned"
    /\ stopPc[s] = "idle"
    /\ s = 1 \/ stopPc[1] # "idle"
    /\ quit' = TRUE
    /\ stopPc' = [stopPc EXCEPT ![s] = "waiting"]
    /\ UNCHANGED << cfg, addresses, resolved, serverList, numServers, wait, ticker, tick,
                    pc, servers, err, rdPc, rdKey, rdN, rdResult, opResult, hist, hashVars >>

\* line 119: close(c.quit); closing a closed channel panics
StopClose(s) ==
    /\ ~Panicked
    /\ pc["ctor"] = "returned"
    /\ stopPc[s] = "idle"
    /\ s = 1 \/ stopPc[1] # "idle"
    /\ IF quit
       THEN /\ stopPc' = [stopPc EXCEPT ![s] = "panicked"]
            /\ UNCHANGED quit
       ELSE /\ quit' = TRUE
            /\ stopPc' = [stopPc EXCEPT ![s] = "waiting"]
    /\ UNCHANGED << cfg, addresses, resolved, serverList, numServers, wait, ticker, tick,
                    pc, servers, err, rdPc, rdKey, rdN, rdResult, opResult, hist, hashVars >>

StopWaitSkipped(s) ==
    /\ ~Panicked
    /\ stopPc[s] = "waiting"
    /\ stopPc' = [stopPc EXCEPT ![s] = "returned"]
    /\ UNCHANGED << cfg, addresses, resolved, serverList, numServers, quit, wait, ticker,
                    tick, pc, servers, err, rdPc, rdKey, rdN, rdResult, opResult, hist,
                    hashVars >>

\* line 120: c.wait.Wait() returns when the counter is zero
StopWait(s) ==
    /\ ~Panicked
    /\ stopPc[s] = "waiting"
    /\ wait = 0
    /\ stopPc' = [stopPc EXCEPT ![s] = "returned"]
    /\ UNCHANGED << cfg, addresses, resolved, serverList, numServers, quit, wait, ticker,
                    tick, pc, servers, err, rdPc, rdKey, rdN, rdResult, opResult, hist,
                    hashVars >>

-----------------------------------------------------------------------------
(* A caller's get/set, routed through the selector's PickServer *)

\* PickServer takes the read lock, which no writer holds, and reads len(addrs)
RdLock ==
    /\ ~Panicked
    /\ pc["ctor"] = "returned"
    /\ rdPc = "idle"
    /\ ~WriterHoldsLock
    /\ \E k \in Keys : rdKey' = k
    /\ rdN' = Len(ClientSelectorList)
    /\ rdPc' = "rlocked"
    /\ opResult' = "none"
    /\ hist' = [hist EXCEPT !.lists = { ClientSelectorList }]
    /\ UNCHANGED << cfg, addresses, resolved, serverList, numServers, quit, wait, ticker,
                    tick, pc, servers, err, stopPc, rdResult, hashVars >>

\* PickServer fails on an empty list, else indexes the list; the lock is released
RdPick ==
    /\ ~Panicked
    /\ rdPc = "rlocked"
    /\ rdResult' = IF rdN = 0 THEN ErrNoServers
                   ELSE PickAt(ClientSelectorList, PickIndex(rdKey, rdN))
    /\ rdPc' = "picked"
    /\ UNCHANGED << cfg, addresses, resolved, serverList, numServers, quit, wait, ticker,
                    tick, pc, servers, err, stopPc, rdKey, rdN, opResult, hist, hashVars >>

\* the get/set returns PickServer's error to its caller, or goes on to the
\* server that was picked
RdReturn ==
    /\ ~Panicked
    /\ rdPc = "picked"
    /\ opResult' = rdResult.err
    /\ rdResult' = NoResult
    /\ rdKey' = NoKey
    /\ rdN' = 0
    /\ rdPc' = "idle"
    /\ hist' = [hist EXCEPT !.lists = { }]
    /\ UNCHANGED << cfg, addresses, resolved, serverList, numServers, quit, wait, ticker,
                    tick, pc, servers, err, stopPc, hashVars >>

-----------------------------------------------------------------------------
(* The client's specification *)

HashIdle ==
    /\ hkey = Bytes(<< 0, 0, 0, 0, 0, 0, 0, 0 >>)
    /\ hn = 0
    /\ hbucket = -1
    /\ hprev = -1

Init == InitClient /\ HashIdle

Next ==
    \/ CtorNew
    \/ \E w \in Executors : UpdResolve(w)
    \/ \E w \in Executors : UpdSort(w)
    \/ \E w \in Executors : UpdSetServers(w)
    \/ CtorStartLoop
    \/ CtorReturn
    \/ LoopNewTicker
    \/ Tick
    \/ LoopTick
    \/ LoopQuit
    \/ LoopDone
    \/ \E s \in Stoppers : StopClose(s)
    \/ \E s \in Stoppers : StopWait(s)
    \/ RdLock
    \/ RdPick
    \/ RdReturn

Spec == Init /\ [][Next]_vars

-----------------------------------------------------------------------------
(* The client under the scheduling its progress rests on *)

\* a goroutine that can run does run: every call of the cycle returns, the
\* loop goes on from where it is, Stop's Wait returns once the counter is zero
\* and a PickServer releases its read lock. SetServers gets the selector's
\* lock although readers keep taking it (a waiting writer keeps new readers
\* out), and the select, which picks among its ready cases at random, does not
\* pass over the closed quit forever
Fairness ==
    /\ WF_vars(UpdResolve("loop"))
    /\ WF_vars(UpdSort("loop"))
    /\ SF_vars(UpdSetServers("loop"))
    /\ []<>(rdPc # "rlocked")
    /\ WF_vars(LoopNewTicker)
    /\ SF_vars(LoopQuit)
    /\ WF_vars(LoopDone)
    /\ WF_vars(StopWait(1))

\* the clients whose address list asks for no lookup: the progress of Stop and
\* of the loop does not rest on what a resolution returns
InitFair == Init /\ cfg.Addresses # DnsAddress

SpecFair == InitFair /\ [][Next]_vars /\ Fairness

-----------------------------------------------------------------------------
(* The jump hash under a growing server list: the list of a key's selector  *)
(* grows by one server at its end and the key is placed again               *)

\* the key hashes of the study: every byte is one of three values
HashKeys == [0..7 -> { 0, 165, 255 }]

InitHash ==
    /\ InitClient
    /\ cfg = Config("", DnsAddress, TRUE)
    /\ hkey \in HashKeys
    /\ hn = 0
    /\ hbucket = -1
    /\ hprev = -1

HashGrow ==
    /\ hn < MaxServers
    /\ hn' = hn + 1
    /\ hprev' = hbucket
    /\ hbucket' = JumpHash(hkey, hn + 1)
    /\ UNCHANGED << hkey, clientVars >>

NextHash == HashGrow

SpecHash == InitHash /\ [][NextHash]_vars

-----------------------------------------------------------------------------
(* The cycles of a client whose address list asks for two lookups: the      *)
(* constructor and the loop alone, with no caller of Stop or of get/set     *)

\* cfg.Addresses is "dns+m,dns+n"
TwoLookups == DnsAddress \o << 44 >> \o << 100, 110, 115, 43, 110 >>

InitTwoLookups ==
    /\ cfg = Config("", TwoLookups, FALSE)
    /\ addresses = << >>
    /\ resolved = << >>
    /\ serverList = << >>
    /\ numServers = 0
    /\ quit = FALSE
    /\ wait = 0
    /\ ticker = "none"
    /\ tick = FALSE
    /\ pc = [ctor |-> "new", loop |-> "none"]
    /\ servers = [w \in Executors |-> << >>]
    /\ err = "nil"
    /\ stopPc = [s \in Stoppers |-> "idle"]
    /\ rdPc = "idle"
    /\ rdKey = NoKey
    /\ rdN = 0
    /\ rdResult = NoResult
    /\ opResult = "none"
    /\ hist = InitHist
    /\ HashIdle

NextTwoLookups ==
    \/ CtorNew
    \/ \E w \in Executors : UpdResolve(w)
    \/ \E w \in Executors : UpdSort(w)
    \/ \E w \in Executors : UpdSetServers(w)
    \/ CtorStartLoop
    \/ CtorReturn
    \/ LoopNewTicker
    \/ Tick
    \/ LoopTick

SpecTwoLookups == InitTwoLookups /\ [][NextTwoLookups]_vars

-----------------------------------------------------------------------------
(* Properties *)

\* the executor w is inside updateMemcacheServers
InCycle(w) == pc[w] \in { "resolve", "sort", "set" }

\* every order of the list l
Reorderings(l) == { [i \in 1..Len(l) |-> l[o[i]]] : o \in Orders(1..Len(l)) }

\* the provider's records, sorted: what a cycle hands to SetServers
ProviderSorted ==
    SortStrings(ProviderAddresses(resolved, CHOOSE o \in Orders(DOMAIN resolved) : TRUE))

\* C1: once a call of Stop has returned the loop has exited and no execution
\* of updateMemcacheServers is in progress, so none starts or completes later
C1_StopReturnsAfterLoopExit ==
    \A s \in Stoppers :
        stopPc[s] = "returned" =>
            /\ pc["loop"] = "exited"
            /\ \A w \in Executors : ~InCycle(w)

\* Stop has returned on a client whose loop had served a tick
C1_Witness ==
    stopPc[1] = "returned" /\ hist.tickServed /\ pc["loop"] = "exited"

\* C2: in a cycle whose resolution failed the active server set stays what it
\* was and SetServers is not called
C2_FailedCycleKeepsServers ==
    [][ hist.failed =>
          /\ serverList' = serverList
          /\ \A w \in Executors : ~(pc[w] = "set" /\ pc'[w] # "set") ]_vars

\* C3: the active list is in ascending order, and the list a cycle hands to
\* SetServers is in ascending order and is the one that every order of the
\* resolver's answer sorts to
C3_ServersSorted ==
    /\ IsSorted(serverList)
    /\ \A w \in Executors :
         pc[w] = "set" =>
            /\ IsSorted(servers[w])
            /\ \A l \in Reorderings(hist.raw) : SortStrings(l) = servers[w]

\* a cycle is about to hand over two addresses that the resolver returned in
\* descending order
C3_Witness ==
    \E w \in Executors :
        /\ pc[w] = "set"
        /\ Len(hist.raw) = 2
        /\ StrLess(hist.raw[2], hist.raw[1])
        /\ servers[w] # hist.raw

\* C4 as claimed: the first cycle runs alone before the loop exists, and when
\* the constructor returns after a first resolution that succeeded (no tick
\* served yet) the selector holds the sorted resolved list
C4_FirstResolutionInstalled ==
    /\ (pc["ctor"] = "new" \/ InCycle("ctor")) => (pc["loop"] = "none" /\ ticker = "none")
    /\ (pc["ctor"] = "returned" /\ ~hist.tickServed /\ ~hist.firstFailed)
           => serverList = ProviderSorted

\* C4 as amended: the first cycle runs alone before the loop exists, and when
\* the first resolution succeeded and SetServers accepted its list, the
\* selector holds the sorted resolved list when the loop is started and when
\* the constructor returns, until a tick is served
C4_FirstCycleBeforeLoop ==
    /\ (pc["ctor"] = "new" \/ InCycle("ctor")) => (pc["loop"] = "none" /\ ticker = "none")
    /\ pc["loop"] # "none" => pc["ctor"] \in { "return", "returned" }
    /\ (pc["ctor"] \in { "start", "return", "returned" } /\ ~hist.tickServed
          /\ ~hist.firstFailed /\ err = "nil")
           => serverList = ProviderSorted

\* the constructor has returned with the two resolved addresses installed
C4_Witness ==
    /\ pc["ctor"] = "returned"
    /\ ~hist.tickServed /\ ~hist.firstFailed /\ err = "nil"
    /\ Len(serverList) = 2

\* C5: what PickServer returns is its pick from one complete list that was
\* active while it ran
C5_PickSeesOneList ==
    rdPc = "picked" => \E l \in hist.lists : rdResult = PickFrom(l, rdKey)

\* a PickServer has picked from the old list while the loop's SetServers with
\* a different list is pending
C5_Witness ==
    /\ rdPc = "picked"
    /\ rdResult.err = "nil"
    /\ pc["loop"] = "set"
    /\ servers["loop"] # serverList

\* C6: with a hostname and no address list, every resolution of a cycle is
\* the SRV lookup
C6_HostnameUsesSrvLookup ==
    (cfg.Addresses = << >> /\ cfg.Host # "" /\ hist.source # "none") => hist.source = "srv"

\* C7 as claimed: with an invalid discovery source the constructor does not
\* return a client and starts no loop
C7_InvalidSourceRejected ==
    InvalidSource(cfg) => (pc["ctor"] # "returned" /\ pc["loop"] = "none")

\* C7 as amended: with an invalid discovery source the constructor reports no
\* error of its own and, when it returns, has started the loop
C7_InvalidSourceAccepted ==
    InvalidSource(cfg) =>
        /\ err # "ConfigurationError"
        /\ pc["ctor"] = "returned" => (pc["loop"] # "none" /\ (wait = 1 \/ pc["loop"] = "exited"))

\* the constructor has returned for a configuration with neither source and
\* the loop waits in its select
C7_Witness ==
    /\ cfg.Host = "" /\ cfg.Addresses = << >>
    /\ pc["ctor"] = "returned"
    /\ pc["loop"] = "select"

\* C8: when the first cycle failed (its lookup failed, or it returned an
\* error) the constructor still returns a client whose loop it has started,
\* and that loop ends only once quit is closed
C8_FirstFailureKeepsLoop ==
    ((hist.firstFailed \/ err # "nil") /\ pc["ctor"] = "returned") =>
        /\ pc["loop"] # "none"
        /\ pc["loop"] \in { "return", "exited" } => quit

\* after a first cycle that returned an error, a tick's cycle has installed servers
C8_Witness ==
    /\ err # "nil"
    /\ pc["ctor"] = "returned"
    /\ hist.tickServed
    /\ pc["loop"] = "select"
    /\ Len(serverList) > 0

\* C9: a PickServer against an empty active set fails with ErrNoServers, and
\* the get/set that called it ends with that error
C9_EmptySetFails ==
    [][ /\ (rdPc = "rlocked" /\ rdPc' = "picked" /\ serverList = << >>)
             => rdResult' = ErrNoServers
        /\ (rdPc = "picked" /\ rdPc' # "picked" /\ rdResult = ErrNoServers)
             => (rdPc' = "idle" /\ opResult' = "ErrNoServers") ]_vars

\* a get/set has failed with ErrNoServers after a tick's resolution emptied the set
C9_Witness ==
    /\ opResult = "ErrNoServers"
    /\ serverList = << >>
    /\ hist.tickServed

\* C10: every bucket lies in [0, n), and the bucket for n servers is the
\* bucket for n - 1 servers or the new last bucket n - 1
C10_JumpHashStable ==
    hn >= 1 =>
        /\ hbucket \in 0..(hn - 1)
        /\ hn >= 2 => (hbucket = hprev \/ hbucket = hn - 1)

\* a key has moved to the new last bucket from another one than the one before it
C10_Witness ==
    hn >= 3 /\ hbucket = hn - 1 /\ hprev < hn - 2

\* C11: a cycle that returns no error replaces the active set: the step that
\* ends it leaves the selector with exactly the sorted list the resolver
\* returned in that cycle, whatever the set before the step was, and no address
\* outside that list is kept
C11_SetServersReplaces ==
    [][ \A w \in Executors :
          (pc[w] = "set" /\ pc'[w] # "set" /\ hist'.ret = "nil") =>
              /\ serverList' = SortStrings(hist.raw)
              /\ Range(serverList') = Range(hist.raw) ]_vars

\* a tick's cycle has returned no error and the selector no longer holds the
\* address that a PickServer had picked from the set before it
C11_Witness ==
    /\ hist.ret = "nil"
    /\ hist.tickServed
    /\ pc["loop"] = "select"
    /\ rdPc = "picked"
    /\ rdResult.err = "nil"
    /\ Len(serverList) > 0
    /\ rdResult.addr \notin Range(serverList)

\* C12: the step that sets the gauge sets it to the number of addresses the
\* resolution of its cycle returned when every lookup of that resolution
\* succeeded, and leaves the gauge's value as it was when a lookup failed; a
\* cycle that returns at the failed SRV lookup leaves the gauge as it was
C12_GaugeFollowsResolution ==
    [][ \A w \in Executors :
          /\ (pc[w] = "sort" /\ pc'[w] = "set") =>
                 IF hist.failed THEN numServers' = numServers
                 ELSE numServers' = Len(hist.raw)
          /\ (pc[w] = "resolve" /\ pc'[w] = AfterUpdate(w)) => numServers' = numServers ]_vars

\* C13: once Stop has closed quit, the loop enters no cycle from its select: a
\* tick that is ready there, with quit closed, is not served
C13_NoCycleAfterStop ==
    [][ (quit /\ pc["loop"] = "select") => pc'["loop"] # "resolve" ]_vars

\* the step ends a cycle of the loop
LoopCycleEnds ==
    /\ InCycle("loop")
    /\ ~(InCycle("loop"))'

\* C14 as claimed: a cycle of the loop, failed or not, ends with the loop back
\* in its select, the loop leaves only once quit is closed, and a tick's cycle
\* whose resolution had no failed lookup, with Stop not called, ends with the
\* sorted resolved list installed
C14_FailedTickKeepsLoop ==
    [][ /\ LoopCycleEnds => pc'["loop"] = "select"
        /\ pc'["loop"] \in { "return", "exited" } => quit'
        /\ (LoopCycleEnds /\ pc["loop"] = "set" /\ ~hist.failed /\ ~quit)
              => serverList' = SortStrings(hist.raw) ]_vars

\* C14 as amended: a cycle of the loop, failed or not, ends with the loop back
\* in its select, the loop leaves only once quit is closed, and a tick's cycle
\* whose resolution had no failed lookup ends with the sorted resolved list
\* installed when SetServers accepts it, and with the set unchanged and the
\* loop still in its select when SetServers rejects it
C14_FailedTickKeepsLoopAccepted ==
    [][ /\ LoopCycleEnds => pc'["loop"] = "select"
        /\ pc'["loop"] \in { "return", "exited" } => quit'
        /\ (LoopCycleEnds /\ pc["loop"] = "set" /\ ~hist.failed) =>
              IF hist'.ret = "nil" THEN serverList' = SortStrings(hist.raw)
              ELSE serverList' = serverList /\ hist'.ret = "SetServers" ]_vars

\* after a tick that failed, a later tick's cycle with no failed lookup has
\* installed its list, with Stop not called
C14_Witness ==
    /\ hist.tickFailed
    /\ ~hist.failed
    /\ hist.ret = "nil"
    /\ pc["loop"] = "select"
    /\ ~quit
    /\ Len(serverList) > 0

\* C15: a call of Stop that has closed quit returns in the end, with the loop
\* exited, unless a second call of Stop panics; no run serves ticks for ever
\* with quit closed
C15_StopReturns ==
    (stopPc[1] = "waiting") ~> ((stopPc[1] = "returned" /\ pc["loop"] = "exited") \/ Panicked)

\* the only call of Stop has returned, the loop has exited and left a ready
\* tick unserved
C15_Witness ==
    /\ stopPc[1] = "returned"
    /\ stopPc[2] = "idle"
    /\ pc["loop"] = "exited"
    /\ ticker = "stopped"
    /\ tick

\* C16: a resolution with no failed lookup that returns no address sets the
\* gauge to 0, and the step that ends its cycle leaves the selector with the
\* empty set, whatever it held, and returns no error
C16_EmptyResolutionApplied ==
    [][ \A w \in Executors :
          /\ (pc[w] = "sort" /\ pc'[w] # "sort" /\ ~hist.failed /\ hist.raw = << >>)
                => numServers' = 0
          /\ (pc[w] = "set" /\ pc'[w] # "set" /\ ~hist.failed /\ hist.raw = << >>) =>
                /\ serverList' = << >>
                /\ numServers' = 0
                /\ hist'.ret = "nil"
                /\ w = "ctor" => err' = "nil" ]_vars

\* a tick's resolution without a failed lookup has emptied the set from which
\* a PickServer had picked an address
C16_Witness ==
    /\ hist.ret = "nil"
    /\ ~hist.failed
    /\ hist.tickServed
    /\ pc["loop"] = "select"
    /\ serverList = << >>
    /\ numServers = 0
    /\ rdPc = "picked"
    /\ rdResult.err = "nil"

\* C17: the call of SetServers is the last step of its cycle, so a cycle makes
\* one call; the selector's list changes only in such a call, made by the
\* constructor or by the loop; and the constructor and the loop are never
\* both inside updateMemcacheServers
C17_SingleWriter ==
    [][ /\ \A w \in Executors :
             (pc[w] = "set" /\ hist'.ret # "none") => ~(InCycle(w))'
        /\ serverList' # serverList =>
             \E w \in Executors : pc[w] = "set" /\ hist'.ret # "none"
        /\ ~(InCycle("ctor") /\ InCycle("loop"))' ]_vars

\* the loop is about to call SetServers with a new list, in a later cycle
\* than its first, the constructor's cycle long over
C17_Witness ==
    /\ pc["loop"] = "set"
    /\ pc["ctor"] = "returned"
    /\ hist.tickFailed
    /\ servers["loop"] # serverList

C19_GaugeEqualsActiveSet ==
    (\A w \in Executors : ~InCycle(w)) => numServers = Len(serverList)

\* C19 as amended: whenever no cycle is in progress, the gauge is the number of
\* servers in the active set when the last cycle's SetServers accepted its
\* list, and the number of addresses the provider holds, of a list that is
\* not empty, when the last cycle's SetServers returned an error
C19_GaugeCountsDiscovered ==
    (\A w \in Executors : ~InCycle(w)) =>
        /\ hist.ret = "nil" => numServers = Len(serverList)
        /\ hist.ret = "SetServers" => (numServers = Len(ProviderSorted) /\ numServers > 0)

\* after a tick's cycle whose SetServers returned an error the gauge counts
\* two servers and the active set has one
C19_Witness ==
    /\ \A w \in Executors : ~InCycle(w)
    /\ hist.tickServed
    /\ hist.ret = "SetServers"
    /\ numServers = 2
    /\ Len(serverList) = 1

\* C20: the second call of Stop, made while the first waits or after it has
\* returned, never gets to wait or to return: it panics at the close of the
\* closed quit; quit stays closed, and a loop that the first call saw exit
\* stays exited
C20_SecondStopPanics ==
    /\ stopPc[2] \in { "idle", "panicked" }
    /\ stopPc[2] = "panicked" =>
          /\ quit
          /\ stopPc[1] \in { "waiting", "returned" }
          /\ stopPc[1] = "returned" => (pc["loop"] = "exited" /\ wait = 0)

\* a second call of Stop has panicked after the first had returned
C20_Witness ==
    /\ stopPc[1] = "returned"
    /\ stopPc[2] = "panicked"
    /\ pc["loop"] = "exited"

====
